---------------------------- MODULE Spec2Model ----------------------------
(***************************************************************************)
(* A model of the connection-log harvester (connectionLogsGrabber.py) and  *)
(* of the multi-account correlation (multiAccountChecker.py).              *)
(*                                                                         *)
(* Python strings are sequences of one-character strings, so that          *)
(* str(), str.isdigit() and the lexical comparison of timestamps are       *)
(* computed and not assumed.  Python's None is the value None.             *)
(*                                                                         *)
(* Specifications:                                                         *)
(*   Spec            the harvest run (__main__ of connectionLogsGrabber),  *)
(*                   run twice on the same id file and output path         *)
(*   SpecDistribute  the work distribution of lines 318-355 on any id      *)
(*                   list, set of processed ids and number of drivers      *)
(*   SpecFetch       one worker (process_id_batch_worker) on one batch,    *)
(*                   step by step through search_and_fetch_logs_for_id,    *)
(*                   with a session that may fail at every step            *)
(*   SpecAnalyze     __main__ of multiAccountChecker on any flat list of   *)
(*                   log records: analyze_data, then print_results         *)
(*   SpecRank        print_results on any shared groups                    *)
(*   SpecPool        one harvest run with its error paths: sessions that   *)
(*                   fail to start or to close, an output file that is no  *)
(*                   list, workers that raise                              *)
(*   SpecFetchOne    one worker on a batch of one id, its steps taken      *)
(*                   under weak fairness (termination of the loop)         *)
(***************************************************************************)
EXTENDS Integers, Sequences, FiniteSets, TLC

(***************************************************************************)
(* Bounds of the model.                                                    *)
(***************************************************************************)
\* longest id file (in tokens) of the harvest run
MaxIds == 2
\* longest output file found by the first run (in entries)
MaxPrior == 1

\* args.max_workers: the number of browser instances attempted
MaxWorkers == 2

\* SpecDistribute: longest id list, most drivers
MaxList == 5
MaxDrivers == 3

\* SpecFetch: longest batch, largest max_logs, longest page of one response
MaxBatch == 3
MaxCap == 2
MaxPage == 2

\* SpecAnalyze: most log records; SpecRank: largest count of a user
MaxRecords == 3
MaxCount == 2

(***************************************************************************)
(* Values.                                                                 *)
(***************************************************************************)
None == "None"

Min(a, b) == IF a < b THEN a ELSE b

\* a JSON integer and a JSON string, as found under "user_id"
IntVal(n) == [t |-> "int", n |-> n, s |-> <<>>]
StrVal(s) == [t |-> "str", n |-> 0, s |-> s]

DigitChars == <<"0", "1", "2", "3", "4", "5", "6", "7", "8", "9">>

RECURSIVE Decimal(_)
\* str(n) of an int n >= 0
Decimal(n) ==
    IF n < 10 THEN <<DigitChars[n + 1]>>
    ELSE Decimal(n \div 10) \o <<DigitChars[(n % 10) + 1]>>

\* str(v): a string is itself, an int its decimal digits
Str(v) == IF v.t = "int" THEN Decimal(v.n) ELSE v.s

\* str.isdigit(): non-empty and every character a digit
IsDigit(tok) ==
    /\ Len(tok) > 0
    /\ \A i \in 1..Len(tok) : \E d \in 1..10 : tok[i] = DigitChars[d]

Range(s) == {s[i] : i \in 1..Len(s)}

RECURSIVE SeqsUpTo(_, _)
\* the sequences over S of length at most n
SeqsUpTo(S, n) ==
    IF n = 0 THEN {<<>>}
    ELSE LET shorter == SeqsUpTo(S, n - 1)
         IN  shorter \cup {Append(s, x) : s \in {t \in shorter : Len(t) = n - 1}, x \in S}

(***************************************************************************)
(* The output file: absent, unparsable (empty, truncated, partly written)  *)
(* or a JSON list.  An item of the list is an entry                        *)
(* {"user_id": v, "logs": [...]}, a dict with no "user_id", or no dict.    *)
(***************************************************************************)
Absent == [kind |-> "absent", entries |-> <<>>]
Corrupt == [kind |-> "corrupt", entries |-> <<>>]
ListFile(es) == [kind |-> "list", entries |-> es]

Entry(v, logs) == [kind |-> "entry", user_id |-> v, logs |-> logs]
NoUidItem == [kind |-> "nouid", user_id |-> StrVal(<<>>), logs |-> <<>>]
NonDictItem == [kind |-> "nondict", user_id |-> StrVal(<<>>), logs |-> <<>>]

\* one harvested log record of a user
LogRecord(uid) == [userId |-> uid]

\* tokens of the id file: two ids and a token that is no number
Tokens == {<<"1">>, <<"2">>, <<"x">>}

\* items of an output file left by an earlier program or run
PriorItems ==
    { Entry(IntVal(1), <<>>),
      Entry(StrVal(<<"2">>), <<LogRecord(<<"2">>)>>),
      NonDictItem }

PriorFiles ==
    {Absent, Corrupt} \cup {ListFile(es) : es \in SeqsUpTo(PriorItems, MaxPrior)}

Workers == 1..MaxWorkers

(***************************************************************************)
(* State.                                                                  *)
(***************************************************************************)
VARIABLES
    \* the harvest run
    credentials,    \* username and password are set
    idFile,         \* the tokens of args.id_file
    priorFile,      \* the output file before the first run
    file,           \* the output file args.output
    run,            \* "first" or "second" run on the same paths
    pc,             \* where the main thread is
    exitCode,       \* the process's exit status, None while running
    startFile,      \* the output file when this run started
    processed,      \* processed_user_ids_set
    queue,          \* ids_to_process_queue
    attempt,        \* i of the initialisation loop
    drivers,        \* active_drivers_waits
    closed,         \* drivers on which quit() was called
    batches,        \* id_batches
    results,        \* final_results_list
    savePc,         \* where save_results_to_json returns to
    wpc,            \* each worker's state
    widx,           \* each worker's position in its batch
    wres,           \* each worker's results_for_batch
    fetched,        \* the ids a worker fetched in this run
    lastGood,       \* the output file as of the last complete write of this run
    completedBefore, \* the ids the earlier run left in a complete output file
    \* the work distribution alone
    dpc,            \* "input", "queued" or "split"
    dIds,           \* all_user_ids_from_file
    dDone,          \* processed_user_ids_set
    dDrivers,       \* num_active_drivers
    dQueue,         \* ids_to_process_queue
    dBatches,       \* id_batches
    \* one worker on one batch
    fpc,            \* where the worker is
    id_batch,       \* the worker's batch
    max_logs,       \* max_logs_per_user_val
    fIdx,           \* the place in id_batch of user_id
    user_logs,      \* user_logs of search_and_fetch_logs_for_id
    requests,       \* driver.requests
    results_for_batch,
    fAborted,       \* the places in id_batch whose fetch ended in the handler of line 176
    fOver,          \* the places in id_batch whose user_logs went past max_logs
    page_count,     \* page_count of search_and_fetch_logs_for_id
    fTaken,         \* the marks of the exchanges whose page went into user_logs,
                    \* for the id last fetched
    fPagFailed,     \* the place in id_batch of the id last fetched if its pagination
                    \* failed, with user_logs at that time
    \* the analysis
    apc,            \* where __main__ of multiAccountChecker is
    log_data,       \* the flat list of log records
    shared,         \* what analyze_data returned
    report,         \* what print_results wrote
    \* a call of print_results
    rpc,
    rShared,        \* its arguments
    rReport,        \* what it wrote
    \* one harvest run with its error paths
    oCreds,         \* username and password are set
    oIdFile,        \* the tokens of args.id_file
    oFile0,         \* the output file before the run
    oFile,          \* the output file args.output
    opc,            \* where the main thread is
    oExit,          \* the process's exit status, None while running
    oQueue,         \* ids_to_process_queue
    oI,             \* the number of passes of the loop of line 330
    oStarted,       \* the sessions whose browser was started
    oPool,          \* active_drivers_waits
    oQuit,          \* the sessions on which quit() returned
    oQuitFailed,    \* the sessions on which quit() raised
    oBatches,       \* id_batches
    oSnapshot,      \* final_results_list
    oDriverOf,      \* the session each submitted worker was given, 0 for none
    owpc,           \* each worker's state
    owres,          \* each worker's results_for_batch
    oMerged,        \* the workers whose result was merged, in order
    oPending,       \* the workers whose result was received with no save called since
    oSaveRet,       \* where save_results_to_json returns to
    oSaved,         \* the last call of save_results_to_json wrote the file
    oFailed         \* the workers whose result was merged before a save that failed

\* what the runs are given
given == <<credentials, idFile, priorFile>>
\* the main thread's memory
mem == <<processed, queue, attempt, drivers, closed, batches, results, savePc>>
\* the workers
wk == <<wpc, widx, wres>>

hvars == <<given, file, run, pc, exitCode, startFile, mem, wk, fetched,
           lastGood, completedBefore>>

dvars == <<dpc, dIds, dDone, dDrivers, dQueue, dBatches>>

\* what one worker's steps record besides the state of the code
fMarks == <<fTaken, fPagFailed>>

fvars == <<fpc, id_batch, max_logs, fIdx, user_logs, requests, results_for_batch,
           fAborted, fOver, page_count, fMarks>>

avars == <<apc, log_data, shared, report>>

rvars == <<rpc, rShared, rReport>>

oGiven == <<oCreds, oIdFile, oFile0>>
oSessions == <<oI, oStarted, oPool, oQuit, oQuitFailed>>
oWork == <<oQueue, oBatches, oDriverOf, owpc, owres>>
oStore == <<oFile, oSnapshot, oMerged, oPending, oSaveRet, oSaved, oFailed>>

ovars == <<oGiven, opc, oExit, oSessions, oWork, oStore>>

vars == <<hvars, dvars, fvars, avars, rvars, ovars>>

\* what the steps of one specification leave alone
hOther == <<dvars, fvars, avars, rvars, ovars>>
dOther == <<hvars, fvars, avars, rvars, ovars>>
fOther == <<hvars, dvars, avars, rvars, ovars>>
aOther == <<hvars, dvars, fvars, rvars, ovars>>
rOther == <<hvars, dvars, fvars, avars, ovars>>
oOther == <<hvars, dvars, fvars, avars, rvars>>

(***************************************************************************)
(* File and data handling.                                                 *)
(***************************************************************************)
\* read_ids_from_file: the tokens that are digits, in file order
read_ids_from_file(tokens) == SelectSeq(tokens, IsDigit)

\* the ids that have an entry in a file: the text of each entry's user_id
PresentIds(f) ==
    {Str(f.entries[i].user_id) : i \in {j \in 1..Len(f.entries) : f.entries[j].kind = "entry"}}

\* load_processed_user_ids without the str() of line 236
LoadProcessedNoStr(f) ==
    IF f.kind = "list"
    THEN {e.user_id.s : e \in {x \in Range(f.entries) : x.kind = "entry" /\ x.user_id.t = "str"}}
    ELSE {}

\* load_processed_user_ids: str(user_id) of every dict of the list that has one
load_processed_user_ids(f) ==
    IF f.kind = "list"
    THEN {Str(e.user_id) : e \in {x \in Range(f.entries) : x.kind = "entry"}}
    ELSE {}

\* every id of the file queued
IdsUnfiltered(ids, done) == ids

\* ids_to_process_queue of lines 318-320
ids_to_process(ids, done) == SelectSeq(ids, LAMBDA uid : uid \notin done)

\* math.ceil(n / k)
Ceil(n, k) == (n + k - 1) \div k

\* s[a:b] of Python, 0-based, clamped to the list
Slice(s, a, b) == SubSeq(s, Min(a, Len(s)) + 1, Min(b, Len(s)))

RECURSIVE BatchLoop(_, _, _, _, _)
BatchLoop(q, per, k, i, acc) ==
    IF i >= k THEN acc
    ELSE LET batch == Slice(q, i * per, i * per + per)
         IN  BatchLoop(q, per, k, i + 1, IF batch # <<>> THEN Append(acc, batch) ELSE acc)

\* id_batches with ids_per_driver rounded down
IdBatchesFloor(q, k) == BatchLoop(q, Len(q) \div k, k, 0, <<>>)

\* id_batches of lines 346-355
id_batches(q, k) == BatchLoop(q, Ceil(Len(q), k), k, 0, <<>>)

\* final_results_list of lines 360-367
load_final_results(f) == IF f.kind = "list" THEN f.entries ELSE <<>>

\* what one call of search_and_fetch_logs_for_id may return for uid
FetchOutcomes(uid) == {<<>>, <<LogRecord(uid)>>}

(***************************************************************************)
(* The harvest run.                                                        *)
(***************************************************************************)
NoWorkers == [w \in Workers |-> "none"]

HInit ==
    /\ credentials \in BOOLEAN
    /\ idFile \in SeqsUpTo(Tokens, MaxIds)
    /\ priorFile \in PriorFiles
    /\ file = priorFile
    /\ run = "first"
    /\ pc = "start"
    /\ exitCode = None
    /\ startFile = priorFile
    /\ processed = {}
    /\ queue = <<>>
    /\ attempt = 0
    /\ drivers = <<>>
    /\ closed = {}
    /\ batches = <<>>
    /\ results = <<>>
    /\ savePc = "none"
    /\ wpc = NoWorkers
    /\ widx = [w \in Workers |-> 0]
    /\ wres = [w \in Workers |-> <<>>]
    /\ fetched = {}
    /\ lastGood = priorFile
    /\ completedBefore = {}

\* lines 303-326: credentials, the id file, the processed ids, the queue
Start ==
    /\ pc = "start"
    /\ LET ids == read_ids_from_file(idFile)
           done == load_processed_user_ids(file)
           q == ids_to_process(ids, done)
       IN  IF ~credentials
           THEN /\ pc' = "exit" /\ exitCode' = 1
                /\ UNCHANGED <<processed, queue>>
           ELSE IF ids = <<>>
           THEN /\ pc' = "exit" /\ exitCode' = 0
                /\ UNCHANGED <<processed, queue>>
           ELSE IF q = <<>>
           THEN /\ pc' = "exit" /\ exitCode' = 0
                /\ processed' = done /\ queue' = q
           ELSE /\ pc' = "init_drivers"
                /\ processed' = done /\ queue' = q
                /\ UNCHANGED exitCode
    /\ UNCHANGED <<hOther, given, file, run, startFile, attempt, drivers, closed, batches,
                   results, savePc, wk, fetched, lastGood, completedBefore>>

\* lines 330-337: one pass of the loop, initialize_and_login_driver succeeding
\* or not; a session is named by its place in active_drivers_waits
InitDriver ==
    /\ pc = "init_drivers"
    /\ attempt < MaxWorkers
    /\ \E ok \in BOOLEAN :
        drivers' = IF ok THEN Append(drivers, Len(drivers) + 1) ELSE drivers
    /\ attempt' = attempt + 1
    /\ UNCHANGED <<hOther, given, file, run, pc, exitCode, startFile, processed, queue,
                   closed, batches, results, savePc, wk, fetched, lastGood,
                   completedBefore>>

\* lines 339-367: no driver is fatal; else the batches and the loaded results
Distribute ==
    /\ pc = "init_drivers"
    /\ attempt = MaxWorkers
    /\ IF drivers = <<>>
       THEN /\ pc' = "exit" /\ exitCode' = 1
            /\ UNCHANGED <<batches, results>>
       ELSE /\ pc' = "submit"
            /\ batches' = id_batches(queue, Len(drivers))
            /\ results' = load_final_results(file)
            /\ UNCHANGED exitCode
    /\ UNCHANGED <<hOther, given, file, run, startFile, processed, queue, attempt, drivers,
                   closed, savePc, wk, fetched, lastGood, completedBefore>>

\* lines 374-384: batch i is submitted with driver i
Submit ==
    /\ pc = "submit"
    /\ wpc' = [w \in Workers |->
                 IF w <= Len(batches) /\ w <= Len(drivers) THEN "running" ELSE "none"]
    /\ widx' = [w \in Workers |-> 1]
    /\ wres' = [w \in Workers |-> <<>>]
    /\ pc' = "collect"
    /\ UNCHANGED <<hOther, given, file, run, exitCode, startFile, mem, fetched, lastGood,
                   completedBefore>>

\* lines 187-196: a worker fetches the next id of its batch and appends the
\* entry; after the last id its future completes
WorkerFetch(w) ==
    /\ pc \in {"collect", "save_open", "save_dump"}
    /\ wpc[w] = "running"
    /\ LET uid == batches[w][widx[w]]
       IN  /\ \E logs \in FetchOutcomes(uid) :
                wres' = [wres EXCEPT ![w] = Append(@, Entry(StrVal(uid), logs))]
           /\ fetched' = fetched \cup {uid}
    /\ widx' = [widx EXCEPT ![w] = @ + 1]
    /\ wpc' = [wpc EXCEPT ![w] = IF widx[w] = Len(batches[w]) THEN "returned" ELSE @]
    /\ UNCHANGED <<hOther, given, file, run, pc, exitCode, startFile, mem, lastGood,
                   completedBefore>>

\* a part of a batch result appended
MergeFirst(snapshot, new) == snapshot \o SubSeq(new, 1, 1)

\* line 391: final_results_list.extend(batch_results)
Merge(snapshot, new) == snapshot \o new

\* the result of a worker merged while the worker is still on its batch
CollectRunning(w) ==
    /\ pc = "collect"
    /\ wpc[w] \in {"running", "returned"}
    /\ results' = Merge(results, wres[w])
    /\ wpc' = [wpc EXCEPT ![w] = "collected"]
    /\ pc' = "save_open"
    /\ savePc' = "collect"
    /\ UNCHANGED <<hOther, given, file, run, exitCode, startFile, processed, queue, attempt,
                   drivers, closed, batches, widx, wres, fetched, lastGood,
                   completedBefore>>

\* lines 386-397: the next completed future's batch result is merged
Collect(w) ==
    /\ pc = "collect"
    /\ wpc[w] = "returned"
    /\ results' = Merge(results, wres[w])
    /\ wpc' = [wpc EXCEPT ![w] = "collected"]
    /\ pc' = "save_open"
    /\ savePc' = "collect"
    /\ UNCHANGED <<hOther, given, file, run, exitCode, startFile, processed, queue, attempt,
                   drivers, closed, batches, widx, wres, fetched, lastGood,
                   completedBefore>>

\* lines 404-406: every future was handled; the final save
FinalSave ==
    /\ pc = "collect"
    /\ \A w \in Workers : wpc[w] \in {"none", "collected"}
    /\ pc' = "save_open"
    /\ savePc' = "cleanup"
    /\ UNCHANGED <<hOther, given, file, run, exitCode, startFile, processed, queue, attempt,
                   drivers, closed, batches, results, wk, fetched, lastGood,
                   completedBefore>>

\* line 280: open(filename, 'w') truncates the file, or fails and leaves it
SaveOpen ==
    /\ pc = "save_open"
    /\ \/ /\ file' = Corrupt
          /\ pc' = "save_dump"
       \/ /\ file' = file
          /\ pc' = savePc
    /\ UNCHANGED <<hOther, given, run, exitCode, startFile, mem, wk, fetched, lastGood,
                   completedBefore>>

\* lines 281-284: json.dump writes the whole list, or fails part-way; the
\* exception is caught and logged
SaveDump ==
    /\ pc = "save_dump"
    /\ \/ /\ file' = ListFile(results)
          /\ lastGood' = ListFile(results)
       \/ /\ file' = Corrupt
          /\ lastGood' = lastGood
    /\ pc' = savePc
    /\ UNCHANGED <<hOther, given, run, exitCode, startFile, mem, wk, fetched, completedBefore>>

\* lines 410-416: quit() on the next driver; an exception is caught and logged
Cleanup ==
    /\ pc = "cleanup"
    /\ IF \E i \in 1..Len(drivers) : drivers[i] \notin closed
       THEN /\ closed' = closed \cup
                 {drivers[CHOOSE i \in 1..Len(drivers) :
                     /\ drivers[i] \notin closed
                     /\ \A j \in 1..(i - 1) : drivers[j] \in closed]}
            /\ UNCHANGED <<pc, exitCode>>
       ELSE /\ pc' = "done" /\ exitCode' = 0
            /\ UNCHANGED closed
    /\ UNCHANGED <<hOther, given, file, run, startFile, processed, queue, attempt, drivers,
                   batches, results, savePc, wk, fetched, lastGood, completedBefore>>

Running == pc \in {"init_drivers", "submit", "collect", "save_open", "save_dump", "cleanup"}

\* what the process holds in memory goes with the process
Forget ==
    /\ processed' = {}
    /\ queue' = <<>>
    /\ attempt' = 0
    /\ drivers' = <<>>
    /\ closed' = {}
    /\ batches' = <<>>
    /\ results' = <<>>
    /\ savePc' = "none"
    /\ wpc' = NoWorkers
    /\ widx' = [w \in Workers |-> 0]
    /\ wres' = [w \in Workers |-> <<>>]

\* the process is killed, in save_results_to_json or elsewhere
Crash ==
    /\ Running
    /\ pc' = IF pc \in {"save_open", "save_dump"} THEN "killed_in_save" ELSE "killed"
    /\ Forget
    /\ UNCHANGED <<hOther, given, file, run, exitCode, startFile, fetched, lastGood,
                   completedBefore>>

\* the program is run again with the same id file and output path
Rerun ==
    /\ pc \in {"done", "exit", "killed", "killed_in_save"}
    /\ run = "first"
    /\ run' = "second"
    /\ pc' = "start"
    /\ exitCode' = None
    /\ startFile' = file
    /\ fetched' = {}
    /\ lastGood' = file
    /\ completedBefore' = PresentIds(lastGood)
    /\ Forget
    /\ UNCHANGED <<hOther, given, file>>

HNext ==
    \/ Start
    \/ InitDriver
    \/ Distribute
    \/ Submit
    \/ \E w \in Workers : WorkerFetch(w)
    \/ \E w \in Workers : Collect(w)
    \/ FinalSave
    \/ SaveOpen
    \/ SaveDump
    \/ Cleanup
    \/ Crash
    \/ Rerun

HIdle ==
    /\ credentials = FALSE /\ idFile = <<>> /\ priorFile = Absent /\ file = Absent
    /\ run = "first" /\ pc = "idle" /\ exitCode = None /\ startFile = Absent
    /\ processed = {} /\ queue = <<>> /\ attempt = 0 /\ drivers = <<>>
    /\ closed = {} /\ batches = <<>> /\ results = <<>> /\ savePc = "none"
    /\ wpc = NoWorkers /\ widx = [w \in Workers |-> 0] /\ wres = [w \in Workers |-> <<>>]
    /\ fetched = {} /\ lastGood = Absent /\ completedBefore = {}

(***************************************************************************)
(* The work distribution alone: any id list, any set of processed ids,     *)
(* any number of drivers that logged in.                                   *)
(***************************************************************************)
DistIds == {<<"1">>, <<"2">>, <<"3">>}

DIdle ==
    /\ dpc = "idle" /\ dIds = <<>> /\ dDone = {} /\ dDrivers = 1
    /\ dQueue = <<>> /\ dBatches = <<>>

DInit ==
    /\ dpc = "input"
    /\ dIds \in SeqsUpTo(DistIds, MaxList)
    /\ dDone \in SUBSET {<<"1">>, <<"2">>}
    /\ dDrivers \in 1..MaxDrivers
    /\ dQueue = <<>>
    /\ dBatches = <<>>

\* lines 318-320
DQueue ==
    /\ dpc = "input"
    /\ dQueue' = ids_to_process(dIds, dDone)
    /\ dpc' = "queued"
    /\ UNCHANGED <<dOther, dIds, dDone, dDrivers, dBatches>>

\* lines 346-355
DSplit ==
    /\ dpc = "queued"
    /\ dBatches' = id_batches(dQueue, dDrivers)
    /\ dpc' = "split"
    /\ UNCHANGED <<dOther, dIds, dDone, dDrivers, dQueue>>

DNext ==
    \/ DQueue
    \/ DSplit

(***************************************************************************)
(* One worker on one batch.  An exchange of driver.requests is a request   *)
(* with its response, if any; the body of a response is what json.loads    *)
(* makes of it, or malformed.                                              *)
(***************************************************************************)
Exchange(match, resp, status, ctype, shape, page) ==
    [match |-> match, resp |-> resp, status |-> status, ctype |-> ctype,
     shape |-> shape, page |-> page, at |-> <<0, 0>>]

\* the exchanges of b as driver.requests holds them when they were observed
\* after the n-th triggering action (search or next-page click) on the i-th
\* id of the batch; n is 0 for the exchanges of the page load
Observed(b, i, n) == [k \in 1..Len(b) |-> [b[k] EXCEPT !.at = <<i, n>>]]

\* the pages of at most MaxPage records the remote side may send for uid
Pages(uid) == SeqsUpTo({LogRecord(uid)}, MaxPage)

\* the exchanges a step of the UI may leave in driver.requests
Exchanges(uid) ==
    { Exchange(FALSE, TRUE, 200, "application/json", "list", <<LogRecord(uid)>>),
      Exchange(TRUE, FALSE, 0, "", "none", <<>>),
      Exchange(TRUE, TRUE, 500, "application/json", "list", <<LogRecord(uid)>>),
      Exchange(TRUE, TRUE, 200, "text/html", "list", <<LogRecord(uid)>>),
      Exchange(TRUE, TRUE, 200, "application/json", "malformed", <<>>),
      Exchange(TRUE, TRUE, 200, "application/json", "scalar", <<>>),
      Exchange(TRUE, TRUE, 200, "application/json", "dict_no_data", <<>>),
      Exchange(TRUE, TRUE, 200, "application/json", "dict_data_no_list", <<>>) }
    \cup {Exchange(TRUE, TRUE, 200, "application/json", "list", pg) : pg \in Pages(uid)}
    \cup {Exchange(TRUE, TRUE, 200, "application/json", "dict_data", pg) : pg \in Pages(uid)}

\* the exchanges that may precede the latest one in driver.requests
Earlier(uid) ==
    { Exchange(FALSE, TRUE, 200, "application/json", "list", <<LogRecord(uid)>>),
      Exchange(TRUE, TRUE, 200, "application/json", "dict_data", <<LogRecord(uid)>>) }

\* what driver.requests may hold after a step of the UI: up to two exchanges
Buffers(uid) ==
    {<<>>} \cup {<<x>> : x \in Exchanges(uid)}
           \cup {<<x, y>> : x \in Earlier(uid), y \in Exchanges(uid)}

\* what driver.requests may hold once the data page is loaded: nothing, or
\* the request of the table for its first page
Loaded(uid) == {<<>>} \cup {<<x>> : x \in Earlier(uid)}

\* the index of the latest data request that has a response, or 0
LatestAnswered(reqs) ==
    IF \E i \in 1..Len(reqs) : reqs[i].match /\ reqs[i].resp
    THEN CHOOSE i \in 1..Len(reqs) :
            /\ reqs[i].match /\ reqs[i].resp
            /\ \A j \in (i + 1)..Len(reqs) : ~(reqs[j].match /\ reqs[j].resp)
    ELSE 0

\* lines 109-113: the index of the latest request that is a POST to the data path, or 0
LatestDataRequest(reqs) ==
    IF \E i \in 1..Len(reqs) : reqs[i].match
    THEN CHOOSE i \in 1..Len(reqs) :
            reqs[i].match /\ \A j \in (i + 1)..Len(reqs) : ~reqs[j].match
    ELSE 0

\* the page of the latest data request when its body is a dict with a data
\* list, None for every other body
CaptureDictOnly(reqs) ==
    LET i == LatestDataRequest(reqs)
    IN  IF i = 0 THEN None
        ELSE IF ~reqs[i].resp THEN None
        ELSE IF reqs[i].status = 200 /\ reqs[i].ctype = "application/json"
        THEN IF reqs[i].shape = "dict_data" THEN reqs[i].page ELSE None
        ELSE None

\* capture_latest_data_request: the page of the latest data request, or None
capture_latest_data_request(reqs) ==
    LET i == LatestDataRequest(reqs)
    IN  IF i = 0 THEN None
        ELSE IF ~reqs[i].resp THEN None
        ELSE IF reqs[i].status = 200 /\ reqs[i].ctype = "application/json"
        THEN IF reqs[i].shape = "dict_data" THEN reqs[i].page
             ELSE IF reqs[i].shape = "list" THEN reqs[i].page
             ELSE None
        ELSE None

\* the logs returned without the cut of line 175
ReturnedUncut(logs, cap) == logs

\* line 175: user_logs[:max_logs]
Returned(logs, cap) == Slice(logs, 0, cap)

FIdle ==
    /\ fpc = "idle" /\ id_batch = <<>> /\ max_logs = 0 /\ fIdx = 0
    /\ user_logs = <<>> /\ requests = <<>> /\ results_for_batch = <<>>
    /\ fAborted = {} /\ fOver = {}
    /\ page_count = 0 /\ fTaken = {} /\ fPagFailed = {}

BatchIds == <<<<"1">>, <<"2">>, <<"3">>, <<"4">>, <<"5">>>>

FInit ==
    /\ fpc = "next_id"
    /\ id_batch \in {SubSeq(BatchIds, 1, n) : n \in 1..MaxBatch}
    /\ max_logs \in 0..MaxCap
    /\ fIdx = 1
    /\ user_logs = <<>>
    /\ requests = <<>>
    /\ results_for_batch = <<>>
    /\ fAborted = {}
    /\ fOver = {}
    /\ page_count = 0
    /\ fTaken = {}
    /\ fPagFailed = {}

\* a batch of one id
FInitOne ==
    /\ fpc = "next_id"
    /\ id_batch = SubSeq(BatchIds, 1, 1)
    /\ max_logs \in 0..MaxCap
    /\ fIdx = 1
    /\ user_logs = <<>>
    /\ requests = <<>>
    /\ results_for_batch = <<>>
    /\ fAborted = {}
    /\ fOver = {}
    /\ page_count = 0
    /\ fTaken = {}
    /\ fPagFailed = {}

user_id == id_batch[fIdx]

\* the requests that stay with driver.requests kept as it is
NotCleared(reqs) == reqs

\* del driver.requests (lines 131, 142, 149, 168)
Cleared(reqs) == <<>>

\* lines 187-189 and 126-128, or 195-196 after the last id
NextId ==
    /\ fpc = "next_id"
    /\ IF fIdx > Len(id_batch)
       THEN /\ fpc' = "returned"
            /\ UNCHANGED <<user_logs, page_count, fMarks>>
       ELSE /\ fpc' = "navigate"
            /\ user_logs' = <<>>
            /\ page_count' = 0
            /\ fTaken' = {}
            /\ fPagFailed' = {}
    /\ UNCHANGED <<fOther, id_batch, max_logs, fIdx, requests, results_for_batch,
                   fAborted, fOver>>

\* lines 131-133: the requests are cleared, the data page is loaded
Navigate ==
    /\ fpc = "navigate"
    /\ \E b \in Loaded(user_id) :
          requests' = Cleared(requests) \o Observed(b, fIdx, 0)
    /\ fpc' = "page_length"
    /\ UNCHANGED <<fOther, id_batch, max_logs, fIdx, user_logs, results_for_batch,
                   fAborted, fOver, page_count, fMarks>>

\* lines 135-144: the page length is set and the requests are cleared, or
\* the attempt fails with a warning
PageLength ==
    /\ fpc = "page_length"
    /\ \/ requests' = Cleared(requests)
       \/ requests' = requests
    /\ fpc' = "search"
    /\ UNCHANGED <<fOther, id_batch, max_logs, fIdx, user_logs, results_for_batch,
                   fAborted, fOver, page_count, fMarks>>

\* lines 146-153: the requests are cleared, the search is submitted, the
\* first page is awaited
Search ==
    /\ fpc = "search"
    /\ page_count' = 1
    /\ \E b \in Buffers(user_id) :
          requests' = Cleared(requests) \o Observed(b, fIdx, 1)
    /\ fpc' = "loop"
    /\ UNCHANGED <<fOther, id_batch, max_logs, fIdx, user_logs, results_for_batch,
                   fAborted, fOver, fMarks>>

\* a pass of the loop that goes on to the next page after a page with no
\* records
LoopPageNoBreak ==
    /\ fpc = "loop"
    /\ LET page_data == capture_latest_data_request(requests)
       IN  IF Len(user_logs) >= max_logs
           THEN /\ fpc' = "emit"
                /\ UNCHANGED <<user_logs, fTaken>>
           ELSE IF page_data = None \/ page_data = <<>>
           THEN /\ fpc' = "paginate"
                /\ UNCHANGED <<user_logs, fTaken>>
           ELSE /\ user_logs' = user_logs \o page_data
                /\ fTaken' = fTaken \cup {requests[LatestDataRequest(requests)].at}
                /\ fpc' = IF Len(user_logs') >= max_logs THEN "emit" ELSE "paginate"
    /\ fOver' = IF Len(user_logs') > max_logs THEN fOver \cup {fIdx} ELSE fOver
    /\ UNCHANGED <<fOther, id_batch, max_logs, fIdx, requests, results_for_batch,
                   fAborted, page_count, fPagFailed>>

\* lines 154-158: one pass of the loop up to the pagination
LoopPage ==
    /\ fpc = "loop"
    /\ LET page_data == capture_latest_data_request(requests)
       IN  IF Len(user_logs) >= max_logs
           THEN /\ fpc' = "emit"
                /\ UNCHANGED <<user_logs, fTaken>>
           ELSE IF page_data = None \/ page_data = <<>>
           THEN /\ fpc' = "emit"
                /\ UNCHANGED <<user_logs, fTaken>>
           ELSE /\ user_logs' = user_logs \o page_data
                /\ fTaken' = fTaken \cup {requests[LatestDataRequest(requests)].at}
                /\ fpc' = IF Len(user_logs') >= max_logs THEN "emit" ELSE "paginate"
    /\ fOver' = IF Len(user_logs') > max_logs THEN fOver \cup {fIdx} ELSE fOver
    /\ UNCHANGED <<fOther, id_batch, max_logs, fIdx, requests, results_for_batch,
                   fAborted, page_count, fPagFailed>>

\* a pagination whose failure throws away the logs read so far
PaginateDropsLogs ==
    /\ fpc = "paginate"
    /\ \/ /\ fpc' = "emit"
          /\ UNCHANGED <<requests, page_count, fPagFailed, user_logs>>
       \/ /\ fpc' = "emit"
          /\ user_logs' = <<>>
          /\ fPagFailed' = fPagFailed \cup {<<fIdx, user_logs>>}
          /\ UNCHANGED <<requests, page_count>>
       \/ /\ page_count' = page_count + 1
          /\ \E b \in Buffers(user_id) :
                requests' = Cleared(requests) \o Observed(b, fIdx, page_count')
          /\ fpc' = "loop"
          /\ UNCHANGED <<fPagFailed, user_logs>>
    /\ UNCHANGED <<fOther, id_batch, max_logs, fIdx, results_for_batch,
                   fAborted, fOver, fTaken>>

\* lines 160-172: the next-page control is disabled (161-162); or the
\* button is not there, not clickable or stale (165-167, 172); or the
\* click fails after the requests were cleared (168-169, 172); or the
\* button is clicked after the requests were cleared and the next page is
\* awaited (168-171)
Paginate ==
    /\ fpc = "paginate"
    /\ \/ /\ fpc' = "emit"
          /\ UNCHANGED <<requests, page_count, fPagFailed>>
       \/ /\ fpc' = "emit"
          /\ fPagFailed' = fPagFailed \cup {<<fIdx, user_logs>>}
          /\ UNCHANGED <<requests, page_count>>
       \/ /\ fpc' = "emit"
          /\ requests' = Cleared(requests)
          /\ fPagFailed' = fPagFailed \cup {<<fIdx, user_logs>>}
          /\ UNCHANGED page_count
       \/ /\ page_count' = page_count + 1
          /\ \E b \in Buffers(user_id) :
                requests' = Cleared(requests) \o Observed(b, fIdx, page_count')
          /\ fpc' = "loop"
          /\ UNCHANGED fPagFailed
    /\ UNCHANGED <<fOther, id_batch, max_logs, fIdx, user_logs, results_for_batch,
                   fAborted, fOver, fTaken>>

\* the entry of a returned fetch put in front of the earlier entries
EmitFirst ==
    /\ fpc = "emit"
    /\ results_for_batch' =
          <<Entry(StrVal(user_id), Returned(user_logs, max_logs))>> \o results_for_batch
    /\ fIdx' = fIdx + 1
    /\ fpc' = "next_id"
    /\ UNCHANGED <<fOther, id_batch, max_logs, user_logs, requests, fAborted, fOver,
                   page_count, fMarks>>

\* lines 174-175 and 190-191: the logs are returned, cut to max_logs, and
\* the entry is appended
Emit ==
    /\ fpc = "emit"
    /\ results_for_batch' =
          Append(results_for_batch, Entry(StrVal(user_id), Returned(user_logs, max_logs)))
    /\ fIdx' = fIdx + 1
    /\ fpc' = "next_id"
    /\ UNCHANGED <<fOther, id_batch, max_logs, user_logs, requests, fAborted, fOver,
                   page_count, fMarks>>

\* the steps of lines 129-175 that call the session
SessionSteps == {"navigate", "search", "loop", "paginate"}

\* a failure of the session that ends the worker's loop over its batch
AbortEndsBatch ==
    /\ fpc \in SessionSteps
    /\ fpc = "loop" => Len(user_logs) < max_logs
    /\ fAborted' = fAborted \cup {fIdx}
    /\ fpc' = "returned"
    /\ UNCHANGED <<fOther, id_batch, max_logs, fIdx, user_logs, requests,
                   results_for_batch, fOver, page_count, fMarks>>

\* a failure of the session after which the worker appends no entry
AbortDropsEntry ==
    /\ fpc \in SessionSteps
    /\ fpc = "loop" => Len(user_logs) < max_logs
    /\ fAborted' = fAborted \cup {fIdx}
    /\ fIdx' = fIdx + 1
    /\ fpc' = "next_id"
    /\ UNCHANGED <<fOther, id_batch, max_logs, user_logs, requests, results_for_batch,
                   fOver, page_count, fMarks>>

\* lines 176-179 and 190-191: a step of the session raises; the handler
\* returns user_logs and the entry is appended
Abort ==
    /\ fpc \in SessionSteps
    /\ fpc = "loop" => Len(user_logs) < max_logs
    /\ results_for_batch' =
          Append(results_for_batch, Entry(StrVal(user_id), user_logs))
    /\ fAborted' = fAborted \cup {fIdx}
    /\ fIdx' = fIdx + 1
    /\ fpc' = "next_id"
    /\ UNCHANGED <<fOther, id_batch, max_logs, user_logs, requests, fOver,
                   page_count, fMarks>>

FNext ==
    \/ NextId
    \/ Navigate
    \/ PageLength
    \/ Search
    \/ LoopPage
    \/ Paginate
    \/ Emit
    \/ Abort

(***************************************************************************)
(* The correlation of multiAccountChecker.py.  A log record has the five   *)
(* fields read by analyze_data; a field that is missing or null is None,   *)
(* a timestamp that is missing or null is NoTime.  A dict is the sequence  *)
(* of its items in insertion order.                                       *)
(***************************************************************************)
NoTime == <<None>>

RECURSIVE StrGreater(_, _)
\* a > b of two Python strings of digits
StrGreater(a, b) ==
    IF a = <<>> THEN FALSE
    ELSE IF b = <<>> THEN TRUE
    ELSE IF Head(a) = Head(b) THEN StrGreater(Tail(a), Tail(b))
    ELSE \E i, j \in 1..10 : DigitChars[i] = Head(a) /\ DigitChars[j] = Head(b) /\ i > j

UserIds == {None, "1", "2"}
Timestamps == {NoTime, <<"1", "0">>, <<"9">>}
Identifiers ==
    { [hwid |-> "h1", socialClubId |-> None, ip |-> "i1"],
      [hwid |-> None, socialClubId |-> "s1", ip |-> "i1"],
      [hwid |-> "h2", socialClubId |-> "s1", ip |-> None] }

Records ==
    { [userId |-> u, hwid |-> d.hwid, socialClubId |-> d.socialClubId, ip |-> d.ip,
       timestamp |-> t] : u \in UserIds, d \in Identifiers, t \in Timestamps }

Fields == {"hwid", "socialClubId", "ip"}

NoMaps == [hwid |-> <<>>, socialClubId |-> <<>>, ip |-> <<>>]

\* the place of key k in the dict d of items with field f as key, or 0
Place(d, f, k) ==
    IF \E i \in 1..Len(d) : d[i][f] = k
    THEN CHOOSE i \in 1..Len(d) : d[i][f] = k
    ELSE 0

\* the entry of user_id with the timestamp of the record at hand as last_seen
TouchLast(users, uid, timestamp) ==
    LET i == Place(users, "user", uid)
        old == IF i = 0 THEN [user |-> uid, count |-> 0, last_seen |-> <<>>]
               ELSE users[i]
        new == [user |-> uid, count |-> old.count + 1, last_seen |-> timestamp]
    IN  IF i = 0 THEN Append(users, new) ELSE [users EXCEPT ![i] = new]

\* lines 91-93 on the inner dict of one identifier: the entry of user_id
\* starts as {'count': 0, 'last_seen': ''}
Touch(users, uid, timestamp) ==
    LET i == Place(users, "user", uid)
        old == IF i = 0 THEN [user |-> uid, count |-> 0, last_seen |-> <<>>]
               ELSE users[i]
        new == [user |-> uid, count |-> old.count + 1,
                last_seen |-> IF StrGreater(timestamp, old.last_seen)
                              THEN timestamp ELSE old.last_seen]
    IN  IF i = 0 THEN Append(users, new) ELSE [users EXCEPT ![i] = new]

\* lines 90-93 on one map: nothing for an identifier that is None
Count(map, id, uid, timestamp) ==
    LET i == Place(map, "id", id)
    IN  IF id = None THEN map
        ELSE IF i = 0
        THEN Append(map, [id |-> id, users |-> Touch(<<>>, uid, timestamp)])
        ELSE [map EXCEPT ![i].users = Touch(@, uid, timestamp)]

\* lines 81-103: one record
ScanRecord(maps, record) ==
    IF record.userId = None \/ record.timestamp = NoTime THEN maps
    ELSE [f \in Fields |-> Count(maps[f], record[f], record.userId, record.timestamp)]

RECURSIVE Scan(_, _, _)
\* line 80: the records from the i-th on
Scan(maps, data, i) ==
    IF i > Len(data) THEN maps
    ELSE Scan(ScanRecord(maps, data[i]), data, i + 1)

\* an identifier that has a user
IsSeen(group) == Len(group.users) > 0

\* lines 109, 114, 119: the test of the filter
IsShared(group) == Len(group.users) > 1

\* lines 64-123
analyze_data(data) ==
    IF data = <<>> THEN NoMaps
    ELSE LET maps == Scan(NoMaps, data, 1)
         IN  [f \in Fields |-> SelectSeq(maps[f], IsShared)]

\* a greater count
CountGreater(a, b) == a.count > b.count

\* lines 146, 165, 183: the order of the keys (count, last_seen)
KeyGreater(a, b) ==
    \/ a.count > b.count
    \/ a.count = b.count /\ StrGreater(a.last_seen, b.last_seen)

\* x put into the sorted list s behind the items that x is not greater than
Insert(s, x) ==
    LET k == Cardinality({i \in 1..Len(s) : ~KeyGreater(x, s[i])})
    IN  SubSeq(s, 1, k) \o <<x>> \o SubSeq(s, k + 1, Len(s))

RECURSIVE SortedFrom(_, _, _)
SortedFrom(users, i, acc) ==
    IF i > Len(users) THEN acc
    ELSE SortedFrom(users, i + 1, Insert(acc, users[i]))

\* sorted(user_details_map.items(), key=..., reverse=True): a stable sort
sorted_users(users) == SortedFrom(users, 1, <<>>)

\* lines 139-153: the lines written for one identifier
GroupLines(group) ==
    LET su == sorted_users(group.users)
    IN  [id |-> group.id,
         primary |-> su[1],
         secondary |-> SelectSeq(su, LAMBDA d : d.user # su[1].user)]

\* lines 125-192
print_results(sh) ==
    [f \in Fields |-> [i \in 1..Len(sh[f]) |-> GroupLines(sh[f][i])]]

AIdle == apc = "idle" /\ log_data = <<>> /\ shared = NoMaps /\ report = NoMaps

\* line 205: the records are loaded
AInit ==
    /\ apc = "loaded"
    /\ log_data \in SeqsUpTo(Records, MaxRecords)
    /\ shared = NoMaps
    /\ report = NoMaps

\* lines 208-210
ExitNoRecords ==
    /\ apc = "loaded"
    /\ log_data = <<>>
    /\ apc' = "exit"
    /\ UNCHANGED <<aOther, log_data, shared, report>>

\* lines 221-222
Analyze ==
    /\ apc = "loaded"
    /\ log_data # <<>>
    /\ shared' = analyze_data(log_data)
    /\ apc' = "analyzed"
    /\ UNCHANGED <<aOther, log_data, report>>

\* lines 224-232
PrintResults ==
    /\ apc = "analyzed"
    /\ report' = print_results(shared)
    /\ apc' = "printed"
    /\ UNCHANGED <<aOther, log_data, shared>>

\* lines 233-234: no --analyze
CountOnly ==
    /\ apc = "loaded"
    /\ log_data # <<>>
    /\ apc' = "counted"
    /\ UNCHANGED <<aOther, log_data, shared, report>>

ANext ==
    \/ ExitNoRecords
    \/ Analyze
    \/ PrintResults
    \/ CountOnly

(***************************************************************************)
(* A call of print_results on any shared hwids: two or three users in any  *)
(* insertion order, with any counts and times.                             *)
(***************************************************************************)
RankUsers == {"1", "2", "3"}
LastSeens == {<<"1", "0">>, <<"9">>}

Details == [user : RankUsers, count : 1..MaxCount, last_seen : LastSeens]

\* the inner dicts of a shared identifier: no user twice
UserDicts ==
    {<<a, b>> : a \in Details, b \in Details} \cup
    {<<a, b, c>> : a \in Details, b \in Details, c \in Details}

SharedUserDicts ==
    {us \in UserDicts : \A i, j \in 1..Len(us) : us[i].user = us[j].user => i = j}

\* a dict of shared SocialClub ids given with the hwids
ExampleGroup ==
    [id |-> "s1",
     users |-> << [user |-> "1", count |-> 1, last_seen |-> <<"1", "0">>],
                  [user |-> "2", count |-> 1, last_seen |-> <<"9">>] >>]

RIdle == rpc = "idle" /\ rShared = NoMaps /\ rReport = NoMaps

RInit ==
    /\ rpc = "called"
    /\ \E us \in SharedUserDicts, sc \in {<<>>, <<ExampleGroup>>} :
          rShared = [hwid |-> <<[id |-> "h1", users |-> us]>>,
                     socialClubId |-> sc, ip |-> <<>>]
    /\ rReport = NoMaps

\* lines 125-192
RankPrint ==
    /\ rpc = "called"
    /\ rReport' = print_results(rShared)
    /\ rpc' = "printed"
    /\ UNCHANGED <<rOther, rShared>>

RNext == RankPrint

(***************************************************************************)
(* One harvest run with its error paths.  A session is named by the pass   *)
(* of the loop of line 330 that started its browser.  The output file may  *)
(* also be unreadable (open raises an OSError), a JSON value with no len() *)
(* (a number, null) or a JSON object.                                      *)
(***************************************************************************)
Unreadable == [kind |-> "unreadable", entries |-> <<>>]
ScalarFile == [kind |-> "scalar", entries |-> <<>>]
DictFile == [kind |-> "dict", entries |-> <<>>]

PoolFiles ==
    {Absent, Corrupt, Unreadable, ScalarFile, DictFile,
     ListFile(<<>>), ListFile(<<Entry(IntVal(1), <<>>)>>)}

NoDrivers == [w \in Workers |-> 0]

OIdle ==
    /\ oCreds = FALSE /\ oIdFile = <<>> /\ oFile0 = Absent /\ oFile = Absent
    /\ opc = "idle" /\ oExit = None /\ oQueue = <<>> /\ oI = 0
    /\ oStarted = {} /\ oPool = <<>> /\ oQuit = {} /\ oQuitFailed = {}
    /\ oBatches = <<>> /\ oSnapshot = ListFile(<<>>) /\ oDriverOf = NoDrivers
    /\ owpc = NoWorkers /\ owres = [w \in Workers |-> <<>>]
    /\ oMerged = <<>> /\ oPending = {} /\ oSaveRet = "none" /\ oSaved = FALSE
    /\ oFailed = {}

OInit ==
    /\ oCreds \in BOOLEAN
    /\ oIdFile \in SeqsUpTo(Tokens, MaxIds)
    /\ oFile0 \in PoolFiles
    /\ oFile = oFile0
    /\ opc = "credentials"
    /\ oExit = None /\ oQueue = <<>> /\ oI = 0
    /\ oStarted = {} /\ oPool = <<>> /\ oQuit = {} /\ oQuitFailed = {}
    /\ oBatches = <<>> /\ oSnapshot = ListFile(<<>>) /\ oDriverOf = NoDrivers
    /\ owpc = NoWorkers /\ owres = [w \in Workers |-> <<>>]
    /\ oMerged = <<>> /\ oPending = {} /\ oSaveRet = "none" /\ oSaved = FALSE
    /\ oFailed = {}

\* the run goes on with no credentials
SkipCredentials ==
    /\ opc = "credentials"
    /\ opc' = "read_ids"
    /\ UNCHANGED <<oOther, oGiven, oExit, oSessions, oWork, oStore>>

\* lines 303-308
CheckCredentials ==
    /\ opc = "credentials"
    /\ IF oCreds
       THEN opc' = "read_ids" /\ UNCHANGED oExit
       ELSE opc' = "exit_credentials" /\ oExit' = 1
    /\ UNCHANGED <<oOther, oGiven, oSessions, oWork, oStore>>

\* lines 310-326
ReadIds ==
    /\ opc = "read_ids"
    /\ LET ids == read_ids_from_file(oIdFile)
           q == ids_to_process(ids, load_processed_user_ids(oFile))
       IN  IF ids = <<>>
           THEN opc' = "exit_no_ids" /\ oExit' = 0 /\ UNCHANGED oQueue
           ELSE IF q = <<>>
           THEN opc' = "exit_all_done" /\ oExit' = 0 /\ oQueue' = q
           ELSE opc' = "init_drivers" /\ oQueue' = q /\ UNCHANGED oExit
    /\ UNCHANGED <<oOther, oGiven, oSessions, oBatches, oDriverOf, owpc, owres, oStore>>

\* lines 330-337 with initialize_and_login_driver, lines 90-106: the browser
\* does not start; or the login succeeds; or the login fails and quit()
\* returns, at line 100 or at line 105; or the quit() of line 105 raises
CreateSession ==
    /\ opc = "init_drivers"
    /\ oI < MaxWorkers
    /\ oI' = oI + 1
    /\ LET s == oI + 1
       IN  \/ UNCHANGED <<opc, oExit, oStarted, oPool, oQuit, oQuitFailed>>
           \/ /\ oStarted' = oStarted \cup {s}
              /\ oPool' = Append(oPool, s)
              /\ UNCHANGED <<opc, oExit, oQuit, oQuitFailed>>
           \/ /\ oStarted' = oStarted \cup {s}
              /\ oQuit' = oQuit \cup {s}
              /\ UNCHANGED <<opc, oExit, oPool, oQuitFailed>>
           \/ /\ oStarted' = oStarted \cup {s}
              /\ oQuitFailed' = oQuitFailed \cup {s}
              /\ opc' = "uncaught"
              /\ oExit' = 1
              /\ UNCHANGED <<oPool, oQuit>>
    /\ UNCHANGED <<oOther, oGiven, oWork, oStore>>

\* lines 339-341
NoDriver ==
    /\ opc = "init_drivers"
    /\ oI = MaxWorkers
    /\ oPool = <<>>
    /\ opc' = "exit_no_driver"
    /\ oExit' = 1
    /\ UNCHANGED <<oOther, oGiven, oSessions, oWork, oStore>>

\* lines 343-355
Split ==
    /\ opc = "init_drivers"
    /\ oI = MaxWorkers
    /\ oPool # <<>>
    /\ oBatches' = id_batches(oQueue, Len(oPool))
    /\ opc' = "load"
    /\ UNCHANGED <<oOther, oGiven, oExit, oSessions, oQueue, oDriverOf, owpc, owres,
                   oStore>>

\* lines 360-367: what final_results_list is bound to
final_results_list(f) ==
    IF f.kind = "dict" THEN DictFile ELSE ListFile(load_final_results(f))

\* lines 360-367: open() raises an OSError, or len() of line 364 raises a
\* TypeError, and nothing catches it; else the list is loaded
LoadFinal ==
    /\ opc = "load"
    /\ IF oFile.kind \in {"unreadable", "scalar"}
       THEN opc' = "uncaught" /\ oExit' = 1 /\ UNCHANGED oSnapshot
       ELSE opc' = "submit" /\ oSnapshot' = final_results_list(oFile) /\ UNCHANGED oExit
    /\ UNCHANGED <<oOther, oGiven, oSessions, oWork, oFile, oMerged, oPending, oSaveRet,
                   oSaved, oFailed>>

\* one session for every batch
FirstDriver(pool, i) == pool[1]

\* line 378: active_drivers_waits[i]
DriverFor(pool, i) == pool[i]

\* lines 374-384
SubmitAll ==
    /\ opc = "submit"
    /\ oDriverOf' = [w \in Workers |->
                       IF w <= Len(oBatches) /\ w <= Len(oPool)
                       THEN DriverFor(oPool, w) ELSE 0]
    /\ owpc' = [w \in Workers |->
                  IF w <= Len(oBatches) /\ w <= Len(oPool) THEN "running" ELSE "none"]
    /\ opc' = "collect"
    /\ UNCHANGED <<oOther, oGiven, oExit, oSessions, oQueue, oBatches, owres, oStore>>

\* lines 182-196: the worker returns an entry for every id of its batch
WorkerReturn(w) ==
    /\ owpc[w] = "running"
    /\ \E logs \in [1..Len(oBatches[w]) -> BOOLEAN] :
          owres' = [owres EXCEPT ![w] =
                      [i \in 1..Len(oBatches[w]) |->
                          Entry(StrVal(oBatches[w][i]),
                                IF logs[i] THEN <<LogRecord(oBatches[w][i])>> ELSE <<>>)]]
    /\ owpc' = [owpc EXCEPT ![w] = "returned"]
    /\ UNCHANGED <<oOther, oGiven, opc, oExit, oSessions, oQueue, oBatches, oDriverOf,
                   oStore>>

\* lines 182-196: an exception leaves the worker
WorkerRaise(w) ==
    /\ owpc[w] = "running"
    /\ owpc' = [owpc EXCEPT ![w] = "raised"]
    /\ UNCHANGED <<oOther, oGiven, opc, oExit, oSessions, oQueue, oBatches, oDriverOf,
                   owres, oStore>>

\* lines 386-402: the next completed future; result() raises, or extend()
\* raises on a final_results_list that is no list, or the result is merged
\* and saved
Handle(w) ==
    /\ opc = "collect"
    /\ owpc[w] \in {"returned", "raised"}
    /\ owpc' = [owpc EXCEPT ![w] = "handled"]
    /\ IF owpc[w] = "raised"
       THEN UNCHANGED <<opc, oSnapshot, oMerged, oPending, oSaveRet>>
       ELSE IF oSnapshot.kind # "list" /\ owres[w] # <<>>
       THEN /\ oPending' = oPending \cup {w}
            /\ UNCHANGED <<opc, oSnapshot, oMerged, oSaveRet>>
       ELSE /\ oSnapshot' = IF owres[w] # <<>>
                            THEN ListFile(Merge(oSnapshot.entries, owres[w]))
                            ELSE oSnapshot
            /\ oMerged' = Append(oMerged, w)
            /\ oPending' = oPending \cup {w}
            /\ opc' = "save_open"
            /\ oSaveRet' = "collect"
    /\ UNCHANGED <<oOther, oGiven, oExit, oSessions, oQueue, oBatches, oDriverOf, owres,
                   oFile, oSaved, oFailed>>

\* lines 404-406
LastSave ==
    /\ opc = "collect"
    /\ \A w \in Workers : owpc[w] \in {"none", "handled"}
    /\ opc' = "save_open"
    /\ oSaveRet' = "cleanup"
    /\ UNCHANGED <<oOther, oGiven, oExit, oSessions, oWork, oFile, oSnapshot, oMerged,
                   oPending, oSaved, oFailed>>

\* the workers whose result the save in progress is the first to write
LastMerged ==
    IF oSaveRet = "collect" /\ oMerged # <<>> THEN {oMerged[Len(oMerged)]} ELSE {}

\* lines 252-280: the file is read, then opened for writing, which truncates
\* it; or one of them raises and the handler of line 283 logs it
OpenForSave ==
    /\ opc = "save_open"
    /\ oPending' = {}
    /\ \/ /\ oFile' = Corrupt
          /\ opc' = "save_dump"
          /\ UNCHANGED <<oSaved, oFailed>>
       \/ /\ opc' = oSaveRet
          /\ oSaved' = FALSE
          /\ oFailed' = oFailed \cup LastMerged
          /\ UNCHANGED oFile
    /\ UNCHANGED <<oOther, oGiven, oExit, oSessions, oWork, oSnapshot, oMerged, oSaveRet>>

\* a json.dump whose failure leaves save_results_to_json and the main flow
DumpOrDie ==
    /\ opc = "save_dump"
    /\ \/ /\ oFile' = oSnapshot /\ oSaved' = TRUE
          /\ opc' = oSaveRet
          /\ UNCHANGED <<oFailed, oExit>>
       \/ /\ oFile' = Corrupt /\ oSaved' = FALSE
          /\ oFailed' = oFailed \cup LastMerged
          /\ opc' = "uncaught"
          /\ oExit' = 1
    /\ UNCHANGED <<oOther, oGiven, oSessions, oWork, oSnapshot, oMerged, oPending,
                   oSaveRet>>

\* lines 281-284: json.dump writes final_results_list, or fails part-way
DumpForSave ==
    /\ opc = "save_dump"
    /\ \/ oFile' = oSnapshot /\ oSaved' = TRUE /\ UNCHANGED oFailed
       \/ oFile' = Corrupt /\ oSaved' = FALSE /\ oFailed' = oFailed \cup LastMerged
    /\ opc' = oSaveRet
    /\ UNCHANGED <<oOther, oGiven, oExit, oSessions, oWork, oSnapshot, oMerged, oPending,
                   oSaveRet>>

\* the place in the pool of the next session of the loop of line 410, or 0
NextToClose ==
    IF \E i \in 1..Len(oPool) : oPool[i] \notin oQuit \cup oQuitFailed
    THEN CHOOSE i \in 1..Len(oPool) :
            /\ oPool[i] \notin oQuit \cup oQuitFailed
            /\ \A j \in 1..(i - 1) : oPool[j] \in oQuit \cup oQuitFailed
    ELSE 0

\* a quit() that raises ends the loop of line 410 and the process
CloseOrDie ==
    /\ opc = "cleanup"
    /\ NextToClose # 0
    /\ \/ /\ oQuit' = oQuit \cup {oPool[NextToClose]}
          /\ UNCHANGED <<oQuitFailed, opc, oExit>>
       \/ /\ oQuitFailed' = oQuitFailed \cup {oPool[NextToClose]}
          /\ opc' = "uncaught"
          /\ oExit' = 1
          /\ UNCHANGED oQuit
    /\ UNCHANGED <<oOther, oGiven, oI, oStarted, oPool, oWork, oStore>>

\* quit() on the next session while the futures are still being handled
CloseEarly ==
    /\ opc \in {"collect", "cleanup"}
    /\ NextToClose # 0
    /\ \/ /\ oQuit' = oQuit \cup {oPool[NextToClose]}
          /\ UNCHANGED oQuitFailed
       \/ /\ oQuitFailed' = oQuitFailed \cup {oPool[NextToClose]}
          /\ UNCHANGED oQuit
    /\ UNCHANGED <<oOther, oGiven, opc, oExit, oI, oStarted, oPool, oWork, oStore>>

\* lines 410-416: quit() on the next session returns, or raises and the
\* handler of line 415 logs it
CloseNext ==
    /\ opc = "cleanup"
    /\ NextToClose # 0
    /\ \/ /\ oQuit' = oQuit \cup {oPool[NextToClose]}
          /\ UNCHANGED oQuitFailed
       \/ /\ oQuitFailed' = oQuitFailed \cup {oPool[NextToClose]}
          /\ UNCHANGED oQuit
    /\ UNCHANGED <<oOther, oGiven, opc, oExit, oI, oStarted, oPool, oWork, oStore>>

\* line 418: the script ends
Finish ==
    /\ opc = "cleanup"
    /\ NextToClose = 0
    /\ opc' = "done"
    /\ oExit' = 0
    /\ UNCHANGED <<oOther, oGiven, oSessions, oWork, oStore>>

ONext ==
    \/ CheckCredentials
    \/ ReadIds
    \/ CreateSession
    \/ NoDriver
    \/ Split
    \/ LoadFinal
    \/ SubmitAll
    \/ \E w \in Workers : WorkerReturn(w)
    \/ \E w \in Workers : WorkerRaise(w)
    \/ \E w \in Workers : Handle(w)
    \/ LastSave
    \/ OpenForSave
    \/ DumpForSave
    \/ CloseNext
    \/ Finish

Init == HInit /\ DIdle /\ FIdle /\ AIdle /\ RIdle /\ OIdle

Next == HNext

Spec == Init /\ [][Next]_vars

InitDistribute == HIdle /\ DInit /\ FIdle /\ AIdle /\ RIdle /\ OIdle

InitFetch == HIdle /\ DIdle /\ FInit /\ AIdle /\ RIdle /\ OIdle

InitAnalyze == HIdle /\ DIdle /\ FIdle /\ AInit /\ RIdle /\ OIdle

SpecAnalyze == InitAnalyze /\ [][ANext]_vars

InitRank == HIdle /\ DIdle /\ FIdle /\ AIdle /\ RInit /\ OIdle

SpecRank == InitRank /\ [][RNext]_vars

InitPool == HIdle /\ DIdle /\ FIdle /\ AIdle /\ RIdle /\ OInit

SpecPool == InitPool /\ [][ONext]_vars

SpecFetch == InitFetch /\ [][FNext]_vars

InitFetchOne == HIdle /\ DIdle /\ FInitOne /\ AIdle /\ RIdle /\ OIdle

\* the worker is a thread that is scheduled as long as it has a step to take
SpecFetchOne == InitFetchOne /\ [][FNext]_vars /\ WF_vars(FNext)

SpecDistribute == InitDistribute /\ [][DNext]_vars

(***************************************************************************)
(* Claims about the harvest run (checked under Spec).                      *)
(***************************************************************************)
AllBatchIds == UNION {Range(batches[b]) : b \in 1..Len(batches)}

\* C1: an id whose user_id is in the output file when the run starts (as a
\* string or as a number, with or without logs) is in no batch, is not queued
\* and is fetched by no worker in that run.
C1_DoneIdNeverFetched ==
    \A uid \in PresentIds(startFile) :
        /\ uid \notin Range(queue)
        /\ uid \notin AllBatchIds
        /\ uid \notin fetched

\* C1's case: the id file names an id that the output file already holds with
\* an empty logs list, and the workers of the run have fetched an id.
C1_Witness ==
    /\ \E i \in 1..Len(startFile.entries) :
          /\ startFile.entries[i].kind = "entry"
          /\ startFile.entries[i].logs = <<>>
          /\ Str(startFile.entries[i].user_id) \in Range(read_ids_from_file(idFile))
    /\ fetched # {}
    /\ pc = "done"

\* s is kept, in order, at the front of t
IsPrefix(s, t) == Len(s) <= Len(t) /\ SubSeq(t, 1, Len(s)) = s

\* C2: resume idempotence.  Whenever save_results_to_json has returned, every
\* item the output file held when the run started is still in it; the ids of
\* the file after the second run include those it had after the first; and
\* the second run fetches no id the first run had left in a complete file.
C2_ResumeIdempotence ==
    /\ pc \in {"collect", "cleanup", "done"} => IsPrefix(startFile.entries, file.entries)
    /\ (run = "second" /\ pc = "done") => PresentIds(startFile) \subseteq PresentIds(file)
    /\ run = "second" => fetched \cap completedBefore = {}

\* C6: atomic persistence.  When the process is killed inside
\* save_results_to_json the output file is the last completely written one
\* (or what the run found, if it has written none).
C6_AtomicPersistence ==
    pc = "killed_in_save" => file = lastGood

\* the key of an item: the text of its user_id
Key(e) == Str(e.user_id)

KeysUnique(es) ==
    \A i, j \in 1..Len(es) :
        (es[i].kind = "entry" /\ es[j].kind = "entry" /\ Key(es[i]) = Key(es[j])) => i = j

\* C9: key uniqueness.  If the output file found by the first run has one
\* entry per id, final_results_list and the output file never hold two
\* entries of one id.
C9_KeysUnique ==
    KeysUnique(priorFile.entries) => KeysUnique(results) /\ KeysUnique(file.entries)

HasKey(es, k) == \E i \in 1..Len(es) : es[i].kind = "entry" /\ Key(es[i]) = k

\* snapshot with e in the place of the entry of e's id, or at the end
Upsert1(snapshot, e) ==
    IF HasKey(snapshot, Key(e))
    THEN [i \in 1..Len(snapshot) |->
            IF snapshot[i].kind = "entry" /\ Key(snapshot[i]) = Key(e) THEN e ELSE snapshot[i]]
    ELSE Append(snapshot, e)

RECURSIVE Upsert(_, _)
Upsert(snapshot, new) ==
    IF new = <<>> THEN snapshot
    ELSE Upsert(Upsert1(snapshot, Head(new)), Tail(new))

\* C10: the merge is a replace-by-key upsert.  When a batch result with an
\* entry of an id that final_results_list already holds is merged, the new
\* entry replaces the old one and the other entries stay as they are.
C10_MergeIsUpsert ==
    [][\A w \in Workers :
          (Collect(w) /\ \E i \in 1..Len(wres[w]) : HasKey(results, Key(wres[w][i])))
              => results' = Upsert(results, wres[w])]_vars

(***************************************************************************)
(* Claims about the work distribution (checked under SpecDistribute).      *)
(***************************************************************************)
RECURSIVE Concat(_)
Concat(ss) == IF ss = <<>> THEN <<>> ELSE Head(ss) \o Concat(Tail(ss))

\* the least c with c * k >= n
CeilDiv(n, k) == CHOOSE c \in 0..n : c * k >= n /\ (c = 0 \/ (c - 1) * k < n)

\* C3: partition completeness.  The queue holds the ids that are not
\* processed, once per occurrence in the id list; the batches, put end to end
\* in batch order, are the queue; no batch is empty or longer than
\* ceil(|queue| / drivers); there are at most as many batches as drivers.
C3_PartitionComplete ==
    dpc = "split" =>
        /\ Range(dQueue) \cap dDone = {}
        /\ Len(dQueue) = Cardinality({i \in 1..Len(dIds) : dIds[i] \notin dDone})
        /\ Concat(dBatches) = dQueue
        /\ \A b \in 1..Len(dBatches) :
              /\ dBatches[b] # <<>>
              /\ Len(dBatches[b]) <= CeilDiv(Len(dQueue), dDrivers)
        /\ Len(dBatches) <= dDrivers

\* C3's case: processed ids were left out of the queue, and the queue does
\* not divide evenly: 4 ids for 3 drivers make 2 batches of 2, the third
\* slice being empty.
C3_Witness ==
    /\ dpc = "split"
    /\ dDrivers = 3
    /\ Len(dQueue) = 4
    /\ Len(dIds) = 5
    /\ Len(dBatches) = 2
    /\ Len(dBatches[2]) = 2


(***************************************************************************)
(* C4: cap enforcement.  Whatever pages the remote side returns and         *)
(* whichever way a fetch ends (the loop ends normally, the pagination       *)
(* fails, or a step of the session raises), the entry appended for a work   *)
(* item never holds more than max_logs records.                             *)
(***************************************************************************)
C4_CapEnforced ==
    \A i \in 1..Len(results_for_batch) : Len(results_for_batch[i].logs) <= max_logs

\* a batch is done where one fetch received more than the cap and another
\* was aborted with logs already collected
C4_Witness ==
    /\ fpc = "returned"
    /\ max_logs = 2
    /\ \E i \in fOver : i \notin fAborted /\ Len(results_for_batch[i].logs) = max_logs
    /\ \E j \in fAborted : Len(results_for_batch[j].logs) = 1

(***************************************************************************)
(* C5: partial-failure containment.  If the session raises while the       *)
(* worker fetches the i-th id of its batch, every id before i has its       *)
(* entry, every id the worker has gone past after i has its entry, and      *)
(* when the worker returns every id after i has its entry.  (Workers share  *)
(* no state: each has its own driver and its own results_for_batch.)        *)
(***************************************************************************)
HasEntry(j) ==
    /\ j <= Len(results_for_batch)
    /\ results_for_batch[j].user_id = StrVal(id_batch[j])

FieldValues == {"h1", "h2", "s1", "i1"}

\* the users of the records that count for value v of field f
UsersOf(f, v) ==
    { log_data[i].userId : i \in { k \in 1..Len(log_data) :
                                     /\ log_data[k][f] = v
                                     /\ log_data[k].userId # None
                                     /\ log_data[k].timestamp # NoTime } }

ReportedShared(f, v) == \E k \in 1..Len(shared[f]) : shared[f][k].id = v

C7_SharingThreshold ==
    apc \in {"analyzed", "printed"} =>
        \A f \in Fields : \A v \in FieldValues :
            ReportedShared(f, v) <=> Cardinality(UsersOf(f, v)) >= 2

\* an ip of two users is reported; a hwid of one user that a second user
\* has only in a record with no timestamp is not
C7_Witness ==
    /\ apc = "analyzed"
    /\ ReportedShared("ip", "i1")
    /\ ~ReportedShared("hwid", "h1")
    /\ Cardinality(UsersOf("hwid", "h1")) = 1
    /\ \E i, j \in 1..Len(log_data) :
          /\ log_data[i].hwid = "h1" /\ log_data[j].hwid = "h1"
          /\ log_data[i].userId # None /\ log_data[j].userId # None
          /\ log_data[i].userId # log_data[j].userId
          /\ log_data[j].timestamp = NoTime

(***************************************************************************)
(* C8: primary ranking.  For every group given to print_results, the       *)
(* user written as likely primary is a user of the group that no other     *)
(* user of the group outranks (a larger count, or the same count and a     *)
(* later last_seen); every other user of the group is written exactly      *)
(* once as a secondary user, and the secondary users are in rank order.    *)
(***************************************************************************)
Outranks(a, b) ==
    \/ a.count > b.count
    \/ a.count = b.count /\ StrGreater(a.last_seen, b.last_seen)

RankedGroup(group, lines) ==
    LET us == group.users
        p == lines.primary
        sec == lines.secondary
    IN  /\ lines.id = group.id
        /\ \E i \in 1..Len(us) : us[i] = p
        /\ \A i \in 1..Len(us) : ~Outranks(us[i], p)
        /\ Len(sec) = Len(us) - 1
        /\ \A i \in 1..Len(us) :
              us[i].user # p.user => \E k \in 1..Len(sec) : sec[k] = us[i]
        /\ \A k \in 1..Len(sec) : sec[k].user # p.user
        /\ \A k, l \in 1..Len(sec) : k < l => ~Outranks(sec[l], sec[k])

C8_PrimaryRanking ==
    rpc = "printed" =>
        \A f \in Fields :
            /\ Len(rReport[f]) = Len(rShared[f])
            /\ \A i \in 1..Len(rShared[f]) : RankedGroup(rShared[f][i], rReport[f][i])

\* three users, the last one inserted is the primary by a later last_seen
\* at equal count, and the two secondary users are written in the reverse
\* of their insertion order
C8_Witness ==
    /\ rpc = "printed"
    /\ LET us == rShared.hwid[1].users
           ls == rReport.hwid[1]
       IN  /\ Len(us) = 3
           /\ ls.primary = us[3]
           /\ us[3].count = us[2].count
           /\ StrGreater(us[3].last_seen, us[2].last_seen)
           /\ ls.secondary = <<us[2], us[1]>>
           /\ us[2].count > us[1].count

(***************************************************************************)
(* C11: session pool partial failure.  Whatever the outcome of each        *)
(* creation, all MaxWorkers creations are attempted, once each; the pool   *)
(* holds exactly the sessions that logged in; the run goes on when the     *)
(* pool is not empty, and with an empty pool it exits with a non-zero      *)
(* status, no worker started and the output file untouched.                *)
(***************************************************************************)
BeforePool ==
    {"credentials", "read_ids", "exit_credentials", "exit_no_ids", "exit_all_done"}

NoWorkerStarted == \A w \in Workers : owpc[w] = "none"

C11_PoolPartialFailure ==
    /\ oI <= MaxWorkers
    /\ opc \notin BeforePool \cup {"init_drivers"} => oI = MaxWorkers
    /\ opc \notin BeforePool \cup {"init_drivers", "exit_no_driver"} => oPool # <<>>
    /\ opc \notin {"cleanup", "done"} =>
          Range(oPool) = oStarted \ (oQuit \cup oQuitFailed)
    /\ opc = "exit_no_driver" =>
          /\ oExit = 1
          /\ NoWorkerStarted
          /\ oFile = oFile0

(***************************************************************************)
(* C12: cleanup on every termination path.  When the main flow has ended,  *)
(* by reaching the end of the script or by an exception that nothing       *)
(* caught, quit() has been called on every session of the pool.            *)
(***************************************************************************)
C12_CleanupAlways ==
    opc \in {"done", "uncaught"} =>
        \A i \in 1..Len(oPool) : oPool[i] \in oQuit \cup oQuitFailed

(***************************************************************************)
(* C13: cleanup errors are contained.  A quit() that raises in the cleanup *)
(* does not end the process: quit() is still called on every other session *)
(* of the pool and the script ends with exit status 0.                     *)
(***************************************************************************)
C13_CleanupContained ==
    /\ opc = "uncaught" => oSaveRet # "cleanup"
    /\ opc = "done" =>
          /\ \A i \in 1..Len(oPool) : oPool[i] \in oQuit \cup oQuitFailed
          /\ oExit = 0

\* the quit() of the first session raised, the second session was closed
\* and the script ended
C13_Witness ==
    /\ opc = "done"
    /\ Len(oPool) = 2
    /\ oPool[1] \in oQuitFailed
    /\ oPool[2] \in oQuit

(***************************************************************************)
(* C14: nothing pending.  Once the run has read the id file and the ids    *)
(* already in the output file, if no id of the id file is left to process  *)
(* the process has ended with exit status 0: no session was created, no    *)
(* worker was started and the output file is as it was.                    *)
(***************************************************************************)
\* the ids of the id file with no entry in the output file
Pending ==
    SelectSeq(oIdFile, LAMBDA t : IsDigit(t) /\ t \notin PresentIds(oFile0))

NoSession == oI = 0 /\ oStarted = {} /\ oPool = <<>>

C14_NothingPending ==
    (opc \notin {"credentials", "read_ids", "exit_credentials"} /\ Pending = <<>>) =>
        /\ opc \in {"exit_no_ids", "exit_all_done"}
        /\ oExit = 0
        /\ NoSession
        /\ NoWorkerStarted
        /\ oFile = oFile0

\* the only id of the id file has an entry, with a number as user_id
C14_Witness ==
    /\ opc = "exit_all_done"
    /\ oIdFile = <<<<"1">>>>
    /\ oFile0 = ListFile(<<Entry(IntVal(1), <<>>)>>)
    /\ oExit = 0

(***************************************************************************)
(* C15, as stated: configuration errors are fatal.  With no credentials,   *)
(* or with no id left to process, the run has ended with a non-zero exit   *)
(* status and no session was created.                                      *)
(***************************************************************************)
C15_ConfigFatal ==
    (opc \notin {"credentials", "read_ids"} /\ (~oCreds \/ Pending = <<>>)) =>
        /\ opc \in {"exit_credentials", "exit_no_ids", "exit_all_done"}
        /\ oExit # 0
        /\ NoSession

(***************************************************************************)
(* C15, amended: with no credentials the run ends with exit status 1       *)
(* before the id file is read and before any session is created; with     *)
(* credentials and no id left to process it ends before any session is     *)
(* created, with exit status 0.                                            *)
(***************************************************************************)
C15_ConfigExits ==
    /\ (opc # "credentials" /\ ~oCreds) =>
          /\ opc = "exit_credentials"
          /\ oExit = 1
          /\ NoSession
          /\ oQueue = <<>>
    /\ (opc \notin {"credentials", "read_ids"} /\ oCreds /\ Pending = <<>>) =>
          /\ opc \in {"exit_no_ids", "exit_all_done"}
          /\ oExit = 0
          /\ NoSession

\* no credentials, with an id to process in the id file
C15_Witness ==
    /\ opc = "exit_credentials"
    /\ oExit = 1
    /\ Pending # <<>>

(***************************************************************************)
(* C16: writes to the store never interleave.  A step of a worker changes  *)
(* neither final_results_list nor the output file; the file changes only   *)
(* inside the one save_results_to_json the main thread is in, and          *)
(* final_results_list does not change while a save is in progress; the     *)
(* list, and every list a save wrote, is the list loaded at the start      *)
(* followed by the whole results of the batches merged so far.             *)
(***************************************************************************)
RECURSIVE MergedUpTo(_)
\* the loaded list followed by the results of the first k merged workers
MergedUpTo(k) ==
    IF k = 0 THEN load_final_results(oFile0)
    ELSE MergedUpTo(k - 1) \o owres[oMerged[k]]

InSave == opc \in {"save_open", "save_dump"}

\* final_results_list is bound
AfterLoad == {"submit", "collect", "save_open", "save_dump", "cleanup", "done"}

WholeBatchesOnly ==
    /\ (opc \in AfterLoad /\ oSnapshot.kind = "list") =>
          oSnapshot.entries = MergedUpTo(Len(oMerged))
    /\ oFile.kind = "list" =>
          \E k \in 0..Len(oMerged) : oFile.entries = MergedUpTo(k)

CoordinatorOnly ==
    /\ \A w \in Workers :
          (owpc[w] = "running" /\ owpc'[w] # "running") =>
              UNCHANGED <<oFile, oSnapshot, oMerged>>
    /\ oFile' # oFile => InSave
    /\ oSnapshot' # oSnapshot => ~InSave

C16_NoInterleaving == [](WholeBatchesOnly) /\ [][CoordinatorOnly]_vars

\* a save of the first merged batch is writing while another worker runs
C16_Witness ==
    /\ opc = "save_dump"
    /\ Len(oMerged) = 1
    /\ Len(owres[oMerged[1]]) >= 1
    /\ \E w \in Workers : owpc[w] = "running"

(***************************************************************************)
(* C17: session exclusivity.  Every submitted worker was given a session   *)
(* of the pool, no two workers were given the same session, and a worker   *)
(* that was not submitted has none, whatever the number of sessions and    *)
(* of batches.                                                             *)
(***************************************************************************)
C17_SessionExclusive ==
    /\ \A w \in Workers :
          IF owpc[w] = "none" THEN oDriverOf[w] = 0
          ELSE \E i \in 1..Len(oPool) : oPool[i] = oDriverOf[w]
    /\ \A v, w \in Workers :
          (owpc[v] # "none" /\ owpc[w] # "none" /\ oDriverOf[v] = oDriverOf[w]) => v = w

\* two workers run, each with its own session
C17_Witness ==
    /\ owpc[1] = "running" /\ owpc[2] = "running"
    /\ oDriverOf[1] # oDriverOf[2]
    /\ Len(oBatches) = 2

(***************************************************************************)
(* C18: persist after every batch result.  No batch result that the main   *)
(* thread received is left without a call of save_results_to_json when     *)
(* the main thread is back at the loop over the completed futures, and     *)
(* after a save that wrote the file, the file is final_results_list.       *)
(***************************************************************************)
C18_PersistAfterEachBatch ==
    /\ opc # "save_open" => oPending = {}
    /\ (oSaved /\ opc \in {"collect", "cleanup", "done"}) => oFile = oSnapshot

(***************************************************************************)
(* C19: one item at a time, in batch order.  While the worker is on the     *)
(* fIdx-th id of its batch, the fetches of exactly the ids before it have   *)
(* returned, each with its entry appended, and no other fetch has started;  *)
(* the entries of results_for_batch carry the ids of the batch in the       *)
(* order of the batch; a fetch starts only from the head of the loop, for   *)
(* the id that follows the entries already appended.                        *)
(***************************************************************************)
Fetching == {"navigate", "page_length", "search", "loop", "paginate", "emit"}

C19_OneAtATimeInOrder ==
    /\ Len(results_for_batch) = fIdx - 1
    /\ fIdx <= Len(id_batch) + 1
    /\ fpc \in Fetching => fIdx <= Len(id_batch)
    /\ \A k \in 1..Len(results_for_batch) :
          results_for_batch[k].user_id = StrVal(id_batch[k])

\* the worker has returned a batch of at least two ids whose fetches all
\* came back with logs, the entries in the order of the batch
C19_Witness ==
    /\ fpc = "returned"
    /\ Len(id_batch) >= 2
    /\ Len(results_for_batch) = Len(id_batch)
    /\ fAborted = {}
    /\ \A k \in 1..Len(id_batch) : results_for_batch[k].logs # <<>>

(***************************************************************************)
(* C20: a page without a usable response ends the fetch normally.  When    *)
(* the loop of a fetch looks for a page and the most recent POST to the    *)
(* data path is missing from driver.requests, or has no response, or has   *)
(* a status other than 200, or a content type other than JSON, and the     *)
(* session does not raise, then the loop ends with user_logs as it was,    *)
(* whatever earlier exchange driver.requests holds, and the fetch returns  *)
(* these logs as the entry of the id, which is not counted as a failure.   *)
(***************************************************************************)
DataRequests(reqs) == {i \in 1..Len(reqs) : reqs[i].match}

MostRecent(reqs) ==
    CHOOSE i \in DataRequests(reqs) : \A j \in DataRequests(reqs) : j <= i

Unusable(reqs) ==
    \/ DataRequests(reqs) = {}
    \/ ~reqs[MostRecent(reqs)].resp
    \/ reqs[MostRecent(reqs)].status # 200
    \/ reqs[MostRecent(reqs)].ctype # "application/json"

PageMissing == Len(user_logs) < max_logs /\ Unusable(requests)

EndsLoop ==
    (fpc = "loop" /\ PageMissing /\ fAborted' = fAborted)
        => /\ fpc' = "emit"
           /\ user_logs' = user_logs
           /\ results_for_batch' = results_for_batch

ReturnsLogs ==
    (fpc = "emit" /\ PageMissing)
        => /\ fpc' = "next_id"
           /\ fAborted' = fAborted
           /\ results_for_batch' =
                 Append(results_for_batch, Entry(StrVal(id_batch[fIdx]), user_logs))

C20_MissingPageEndsFetch == [][EndsLoop /\ ReturnsLogs]_vars

\* a fetch has ended on a data request without a response that followed a
\* data request with a page in driver.requests, keeping the record of the
\* first page, below the cap
C20_Witness ==
    /\ fpc = "emit"
    /\ fIdx \notin fAborted
    /\ max_logs = 2
    /\ Len(user_logs) = 1
    /\ Len(requests) = 2
    /\ requests[1].match /\ requests[1].resp /\ requests[1].page # <<>>
    /\ requests[2].match /\ ~requests[2].resp

(***************************************************************************)
(* C21: response decoding.  When the loop of a fetch reads the latest data *)
(* request and it has a JSON response of status 200, the records added to  *)
(* user_logs are the data list of a body that is a dict with a data list,  *)
(* the body itself when it is a list, and nothing for a dict without data, *)
(* a dict whose data is no list, a scalar and a body that does not parse;  *)
(* with nothing added the loop ends and the fetch returns, it is not       *)
(* counted as a failure.                                                   *)
(***************************************************************************)
Decoded(x) ==
    IF x.shape = "dict_data" THEN x.page
    ELSE IF x.shape = "list" THEN x.page
    ELSE <<>>

ReadsPage ==
    /\ fpc = "loop"
    /\ Len(user_logs) < max_logs
    /\ ~Unusable(requests)
    /\ fAborted' = fAborted

DecodesPage ==
    LET page == Decoded(requests[MostRecent(requests)])
    IN  ReadsPage =>
           /\ user_logs' = user_logs \o page
           /\ page = <<>> => fpc' = "emit"
           /\ page # <<>> => fpc' \in {"emit", "paginate"}
           /\ results_for_batch' = results_for_batch

C21_ResponseDecoding == [][DecodesPage]_vars

\* a fetch took the record of a first page and ended on a second page
\* whose body was a dict with a data field that is no list
C21_Witness ==
    /\ fpc = "emit"
    /\ fIdx \notin fAborted
    /\ max_logs = 2
    /\ Len(user_logs) = 1
    /\ Len(requests) = 1
    /\ ~Unusable(requests)
    /\ requests[1].shape = "dict_data_no_list"

(***************************************************************************)
(* C22: a failure of the pagination ends the fetch with its logs.  When    *)
(* the next-page button was not found, not clickable or stale, or its      *)
(* click failed, on the i-th id of the batch with user_logs = logs, the    *)
(* fetch of that id ends without going through the handler of line 176,    *)
(* user_logs stays logs until the fetch returns, the entry appended for    *)
(* the id holds exactly logs, and the worker goes on: it is back at the    *)
(* head of its loop, for the next id or to return after the last one.      *)
(***************************************************************************)
C22_PaginationFailureKeepsLogs ==
    \A f \in fPagFailed :
        /\ f[1] \notin fAborted
        /\ f[1] \in {fIdx, fIdx - 1}
        /\ f[1] = fIdx => (fpc = "emit" /\ user_logs = f[2])
        /\ f[1] = fIdx - 1 =>
              /\ fpc \in {"next_id", "returned"}
              /\ f[1] = Len(results_for_batch)
              /\ results_for_batch[f[1]] = Entry(StrVal(id_batch[f[1]]), f[2])

\* the click on the next-page button failed on the first id of two after
\* one page was read; the first id has its entry with that page and the
\* worker is at the head of its loop for the second id
C22_Witness ==
    /\ fpc = "next_id"
    /\ Len(id_batch) >= 2
    /\ fIdx = 2
    /\ \E f \in fPagFailed : f[1] = 1 /\ Len(f[2]) = 1 /\ results_for_batch[1].logs = f[2]

(***************************************************************************)
(* C23: clear before act.  driver.requests is cleared right before the     *)
(* search is submitted and right before each click on the next-page        *)
(* button, so when the loop looks for a page driver.requests holds only    *)
(* exchanges observed after the latest of these actions on the id being    *)
(* fetched; a page that goes into user_logs is the page of such an         *)
(* exchange, never one of an earlier id or an earlier page, and no         *)
(* exchange gives its page twice.                                          *)
(***************************************************************************)
LatestAction == <<fIdx, page_count>>

OnlyFresh ==
    fpc = "loop" => \A k \in 1..Len(requests) : requests[k].at = LatestAction

AppendsFresh ==
    (fpc = "loop" /\ user_logs' # user_logs) =>
        /\ DataRequests(requests) # {}
        /\ requests[MostRecent(requests)].at = LatestAction
        /\ requests[MostRecent(requests)].at \notin fTaken
        /\ user_logs' = user_logs \o requests[MostRecent(requests)].page

C23_ClearBeforeAct == [](OnlyFresh) /\ [][AppendsFresh]_vars

\* the second id of a batch got a first page after the search and a second
\* page after a click, after the first id got a page
C23_Witness ==
    /\ fpc = "emit"
    /\ fIdx = 2
    /\ page_count = 2
    /\ Len(user_logs) = 2
    /\ results_for_batch[1].logs # <<>>
    /\ fTaken = {<<2, 1>>, <<2, 2>>}

(***************************************************************************)
(* C24: counts and last_seen.  Once analyze_data has returned, for every   *)
(* identifier field, every value and every user it reports, count is the   *)
(* number of records of the input with that value in the field, that user  *)
(* id and a timestamp that is not null, which is at least one, and         *)
(* last_seen is the greatest of the timestamps of these records as         *)
(* strings; a record without user id or without timestamp adds to no       *)
(* count and to no last_seen, and no null user is reported.                *)
(***************************************************************************)
Carrying(f, v, u) ==
    {i \in 1..Len(log_data) :
        /\ log_data[i][f] = v
        /\ log_data[i].userId = u
        /\ log_data[i].timestamp # NoTime}

C24_CountAndLastSeen ==
    apc \in {"analyzed", "printed"} =>
        \A f \in Fields : \A g \in 1..Len(shared[f]) :
            \A k \in 1..Len(shared[f][g].users) :
                LET d == shared[f][g].users[k]
                    R == Carrying(f, shared[f][g].id, d.user)
                IN  /\ d.user # None
                    /\ d.count = Cardinality(R)
                    /\ d.count >= 1
                    /\ \E i \in R : log_data[i].timestamp = d.last_seen
                    /\ \A j \in R : ~StrGreater(log_data[j].timestamp, d.last_seen)

\* a shared ip is reported for a user with count 2 and last_seen "9", the
\* user having a record at "9" and then one at "10"
C24_Witness ==
    /\ apc = "analyzed"
    /\ Len(log_data) = 3
    /\ log_data[1].timestamp = <<"9">>
    /\ log_data[2].timestamp = <<"1", "0">>
    /\ log_data[1].userId = log_data[2].userId
    /\ \E g \in 1..Len(shared.ip) : \E k \in 1..Len(shared.ip[g].users) :
          /\ shared.ip[g].users[k].count = 2
          /\ shared.ip[g].users[k].last_seen = <<"9">>

(***************************************************************************)
(* C25: ties are broken by the contents of the group.  Once the report is  *)
(* written, the same records given in any other order lead to the same     *)
(* primary user for every shared identifier, also when users of the group  *)
(* have the same count and the same last_seen.                             *)
(***************************************************************************)
Reorderings(s) ==
    { [i \in 1..Len(s) |-> s[q[i]]] :
        q \in {r \in [1..Len(s) -> 1..Len(s)] : \A i, j \in 1..Len(s) : r[i] = r[j] => i = j} }

C25_TieBreakByContents ==
    apc = "printed" =>
        \A other \in Reorderings(log_data) :
            LET again == print_results(analyze_data(other))
            IN  \A f \in Fields :
                    \A g \in 1..Len(report[f]) : \A h \in 1..Len(again[f]) :
                        report[f][g].id = again[f][h].id =>
                            report[f][g].primary.user = again[f][h].primary.user

(***************************************************************************)
(* C26: a failed save loses nothing.  When save_results_to_json fails, at  *)
(* the open or in json.dump, the main flow goes on where the save was      *)
(* called, with the same exit status, and final_results_list is what it    *)
(* was; so once a later save of the run has written the file, the file     *)
(* holds the loaded list followed by the results of every batch merged so  *)
(* far, those merged before a save that failed among them.                 *)
(***************************************************************************)
SaveFails ==
    \/ opc = "save_open" /\ opc' \notin {"save_open", "save_dump"}
    \/ opc = "save_dump" /\ opc' # "save_dump" /\ ~oSaved'

NotPropagated ==
    SaveFails =>
        /\ opc' = oSaveRet
        /\ oExit' = oExit
        /\ oSnapshot' = oSnapshot
        /\ oMerged' = oMerged

NextSaveWritesAll ==
    (opc \in {"collect", "cleanup", "done"} /\ oSaved /\ oSnapshot.kind = "list") =>
        /\ oFailed \subseteq Range(oMerged)
        /\ oFile = ListFile(MergedUpTo(Len(oMerged)))

C26_FailedSaveLosesNothing == [](NextSaveWritesAll) /\ [][NotPropagated]_vars

\* the save after a batch with logs failed, a later save wrote the file and
\* the entries of that batch are in the file
C26_Witness ==
    /\ opc \in {"collect", "cleanup", "done"}
    /\ oSaved
    /\ \E w \in oFailed :
          /\ owres[w] # <<>>
          /\ owres[w][1].logs # <<>>
          /\ \A i \in 1..Len(owres[w]) :
                \E j \in 1..Len(oFile.entries) : oFile.entries[j] = owres[w][i]

(***************************************************************************)
(* C27: durability at the grain of a batch.  The output file changes only  *)
(* inside save_results_to_json, and a kill of the process leaves it as it  *)
(* is; whenever the file is a complete list during a run, it is the list   *)
(* the run loaded followed by the whole results of some of the batches     *)
(* whose future was handled, each with one entry per id of the batch in    *)
(* the order of the batch; nothing a worker has fetched for a batch it is  *)
(* still on is in the file, so a kill at that time leaves none of it.      *)
(***************************************************************************)
Finished(w) ==
    /\ wpc[w] = "collected"
    /\ Len(wres[w]) = Len(batches[w])
    /\ \A i \in 1..Len(wres[w]) : wres[w][i].user_id = StrVal(batches[w][i])

Orders ==
    {s \in SeqsUpTo(Workers, MaxWorkers) : \A i, j \in 1..Len(s) : s[i] = s[j] => i = j}

WholeBatchesInFile ==
    (pc \in {"submit", "collect", "save_open", "save_dump", "cleanup", "done"}
        /\ file.kind = "list" /\ file # startFile) =>
        \E s \in Orders :
            /\ \A i \in 1..Len(s) : Finished(s[i])
            /\ file.entries =
                  load_final_results(startFile) \o Concat([i \in 1..Len(s) |-> wres[s[i]]])

InProgress(w) == wpc[w] = "running" /\ wres[w] # <<>>

WrittenBySaveOnly ==
    /\ file' # file => pc \in {"save_open", "save_dump"}
    /\ (\E w \in Workers : InProgress(w) /\ wpc'[w] # "collected") =>
          (file' = file \/ pc \in {"save_open", "save_dump"})
    /\ pc' \in {"killed", "killed_in_save"} => file' = file

C27_BatchDurability == [](WholeBatchesInFile) /\ [][WrittenBySaveOnly]_vars

\* a worker has fetched the first of the two ids of its batch and the file
\* is still the list of one item that the run loaded
C27_Witness ==
    /\ pc = "collect"
    /\ \E w \in Workers : InProgress(w) /\ Len(batches[w]) = 2 /\ Len(wres[w]) = 1
    /\ file.kind = "list"
    /\ file = startFile
    /\ Len(file.entries) = 1

(***************************************************************************)
(* C28: the pagination loop terminates.  A pass of the loop either leaves  *)
(* the loop or adds at least one record to user_logs, so for max_logs >= 1 *)
(* at most max_logs pages are read for an id and page_count never exceeds  *)
(* max_logs, however often the next-page button can be clicked; with       *)
(* max_logs = 0 no page is read.  The worker, when it is scheduled, comes  *)
(* to the end of its batch.                                                *)
(***************************************************************************)
PagesRead == Cardinality(fTaken)

PagesBounded ==
    /\ PagesRead <= max_logs
    /\ (fpc \in {"loop", "paginate", "emit"} /\ max_logs >= 1) => page_count <= max_logs
    /\ fpc = "paginate" => (PagesRead = page_count /\ Len(user_logs) >= page_count)

LeavesOrGrows ==
    (fpc = "loop" /\ fpc' # "loop") =>
        \/ fpc' \in {"emit", "next_id"}
        \/ fpc' = "paginate" /\ Len(user_logs') > Len(user_logs)

C28_PaginationTerminates ==
    /\ [](PagesBounded)
    /\ [][LeavesOrGrows]_vars
    /\ <>(fpc = "returned")

\* max_logs pages of one record were read for an id whose next-page button
\* was never disabled, and the fetch has ended
C28_Witness ==
    /\ fpc = "emit"
    /\ max_logs = MaxCap
    /\ page_count = max_logs
    /\ PagesRead = max_logs
    /\ Len(user_logs) = max_logs
    /\ fIdx \notin {f[1] : f \in fPagFailed}

(***************************************************************************)
(* C29: no session is closed while in use.  quit() is called on a session  *)
(* of the pool only in the cleanup, when every submitted worker has left   *)
(* its batch and its future was handled, and after the final save was      *)
(* called; when the script ends, quit() was called on every session of     *)
(* the pool, those that were given no batch among them.                    *)
(***************************************************************************)
Closing(i) == oPool[i] \in oQuit \cup oQuitFailed

C29_NoCloseInUse ==
    /\ \A i \in 1..Len(oPool) :
          Closing(i) =>
              /\ opc \in {"cleanup", "done"}
              /\ oSaveRet = "cleanup"
              /\ \A w \in Workers : owpc[w] \in {"none", "handled"}
    /\ opc = "done" => \A i \in 1..Len(oPool) : Closing(i)

\* two sessions logged in, one batch was made, its worker returned, and the
\* script ended with both sessions closed
C29_Witness ==
    /\ opc = "done"
    /\ Len(oPool) = 2
    /\ Len(oBatches) = 1
    /\ owpc[1] = "handled" /\ owpc[2] = "none"
    /\ owres[1] # <<>>
    /\ \A i \in 1..Len(oPool) : oPool[i] \in oQuit

(***************************************************************************)
(* C30: a failed id is recorded and not retried.  When a step of the       *)
(* session raises during the fetch of an id, the worker appends the entry  *)
(* of the id with user_logs as it was, empty or not; so once the batch     *)
(* result is merged and saved, load_processed_user_ids of a later run on   *)
(* that output file holds the id and the id is not queued again.           *)
(***************************************************************************)
OutputWith(batch_results) == ListFile(Merge(<<>>, batch_results))

Recorded ==
    \A i \in fAborted :
        /\ i <= Len(results_for_batch)
        /\ results_for_batch[i].kind = "entry"
        /\ results_for_batch[i].user_id = StrVal(id_batch[i])
        /\ LET done == load_processed_user_ids(OutputWith(results_for_batch))
           IN  /\ id_batch[i] \in done
               /\ id_batch[i] \notin Range(ids_to_process(id_batch, done))

RecordsLogs ==
    fAborted' # fAborted =>
        /\ fAborted' = fAborted \cup {fIdx}
        /\ results_for_batch' =
              Append(results_for_batch, Entry(StrVal(id_batch[fIdx]), user_logs))
        /\ fpc' = "next_id"

=============================================================================
